---------------------------- MODULE Spec2Model ----------------------------
(***************************************************************************)
(* CreditRater browser clients (elerk1505/creditrater).                    *)
(*                                                                         *)
(* Three page scripts are modelled, each from its source:                  *)
(*   - the React client       src/frontend/src/App.js and its components   *)
(*   - the key settings script src/frontend/src/main.js                     *)
(*   - the legacy page script  src/unnamed/part_001                         *)
(* together with the HTTP server they talk to.  The server's code is not   *)
(* part of the sources at hand; its endpoints are modelled from the        *)
(* specification's sections 4 and 6.                                       *)
(*                                                                         *)
(* A text the user types is a sequence of one-character strings, so that   *)
(* splitting, trimming and parsing are computed rather than assumed.       *)
(*                                                                         *)
(* An async handler is an entry of `calls`: it is created by the user      *)
(* event, waits for the server (pc = "sent"), gets its response            *)
(* (pc = "replied") and resumes.  A handler reads the React state of the   *)
(* render in which the event happened, so the values it sends are captured *)
(* in the entry when it is created.  A state update is taken to be         *)
(* rendered before the next user event.                                    *)
(***************************************************************************)
EXTENDS Integers, Sequences, FiniteSets, Bags, TLC

\* ------------------------------------------------------------ bounds
\* User events (clicks, file picks and drops, form edits) in one run.
MaxEvents == 3

\* Edits of the industry section (checkbox, select, factor inputs) in one run.
MaxEdits == 4

\* ------------------------------------------------------------ values
\* JavaScript null / undefined
Null == [ null |-> TRUE ]

\* A file_id that is absent (null in the client, missing in a response).
NoId == 0

Modes == {"text", "text+layout", "page_images"}

NoFile == [ name |-> "", ext |-> "" ]

\* The files the user can pick or drop.
Files ==
  { [name |-> "F", ext |-> "pdf"],
    [name |-> "G", ext |-> "PDF"],
    [name |-> "N", ext |-> "txt"] }

\* String.prototype.toLowerCase on a file extension
Lower(e) ==
  CASE e = "PDF" -> "pdf"
    [] e = "TXT" -> "txt"
    [] OTHER -> e

\* /\.pdf$/i.test(f.name)
IsPdfName(f) == Lower(f.ext) = "pdf"

\* ------------------------------------------------------------ texts
Digits == {"1", "2", "3", "4"}

DigitVal(c) ==
  CASE c = "1" -> 1
    [] c = "2" -> 2
    [] c = "3" -> 3
    [] c = "4" -> 4
    [] OTHER -> 0

\* What the user may type into a page-list input.
EmptyText == << >>
PageTexts ==
  { EmptyText,
    <<" ", "3", ",", ",", "1">>,
    <<"2", "-", "3">> }

\* String.prototype.trim
RECURSIVE TrimLeft(_)
TrimLeft(s) ==
  IF s # << >> /\ Head(s) = " " THEN TrimLeft(Tail(s)) ELSE s

RECURSIVE TrimRight(_)
TrimRight(s) ==
  IF s # << >> /\ s[Len(s)] = " "
  THEN TrimRight(SubSeq(s, 1, Len(s) - 1))
  ELSE s

Trim(s) == TrimRight(TrimLeft(s))

\* String.prototype.split(","): the pieces between the commas, empty ones kept
RECURSIVE SplitFrom(_, _, _)
SplitFrom(s, i, cur) ==
  IF i > Len(s) THEN << cur >>
  ELSE IF s[i] = "," THEN << cur >> \o SplitFrom(s, i + 1, << >>)
  ELSE SplitFrom(s, i + 1, Append(cur, s[i]))

Split(s) == SplitFrom(s, 1, << >>)

\* Array.prototype.join(",")
RECURSIVE Join(_)
Join(parts) ==
  IF parts = << >> THEN << >>
  ELSE IF Len(parts) = 1 THEN parts[1]
  ELSE parts[1] \o << "," >> \o Join(Tail(parts))

\* .map(x => x.trim()).filter(Boolean)
RECURSIVE TrimmedNonEmpty(_)
TrimmedNonEmpty(parts) ==
  IF parts = << >> THEN << >>
  ELSE LET t == Trim(Head(parts))
       IN  IF t = << >> THEN TrimmedNonEmpty(Tail(parts))
           ELSE << t >> \o TrimmedNonEmpty(Tail(parts))

\* App.js parsePages
parsePages(s) == Join(TrimmedNonEmpty(Split(s)))


\* ------------------------------------------------------------ server
\* The per-page text class of each uploaded PDF ("scan": no extractable text).
PageKinds(name) ==
  CASE name = "F" -> << "fin", "esg", "glossary" >>
    [] name = "G" -> << "scan", "fin" >>
    [] OTHER -> << >>

PageCount(name) == Len(PageKinds(name))

AllPages(name) == 1 .. PageCount(name)

\* One token of a page list: a page number or a range a-b.
TokenPages(t) ==
  IF Len(t) = 1 /\ t[1] \in Digits THEN { DigitVal(t[1]) }
  ELSE IF Len(t) = 3 /\ t[1] \in Digits /\ t[2] = "-" /\ t[3] \in Digits
       THEN DigitVal(t[1]) .. DigitVal(t[3])
       ELSE { 0 }

\* The server's reading of a page list: the set of pages it names; page 0
\* stands for a token that names no page.
ParsePageList(s) ==
  LET toks == TrimmedNonEmpty(Split(s))
  IN  UNION { TokenPages(toks[i]) : i \in 1 .. Len(toks) }

\* The page lists a request can carry, each with the pages it names
SentTexts == PageTexts \cup { parsePages(t) : t \in PageTexts } \cup { Trim(t) : t \in PageTexts }

PagesNamed == [ t \in SentTexts |-> ParsePageList(t) ]

\* Page indices are 1-based and within the document's bounds.
ValidPageList(s, name) == PagesNamed[s] \subseteq AllPages(name)

\* The boilerplate classes the autocut rule table matches.
CutKinds(aggr) == IF aggr THEN { "glossary", "esg" } ELSE { "glossary" }

\* Autocut: the pages whose text matches the rule table; a page with no
\* text never matches.
AutocutPages(name, aggr) ==
  { p \in AllPages(name) : PageKinds(name)[p] \in CutKinds(aggr) }

\* /preprocess-pdf: the final set of removed pages.
PreprocessRemoved(name, aggr, cut, keep) ==
  (AutocutPages(name, aggr) \cup PagesNamed[cut]) \ PagesNamed[keep]

\* The estimator's per-mode tokens per page, output tokens and prices
\* (micro-dollars per token).
TokensPerPage(mode) ==
  CASE mode = "text+layout" -> 800
    [] mode = "page_images" -> 1100
    [] OTHER -> 500

OutputTokens == 800
PriceIn == 1
PriceOut == 4

EstimateTokens(nPages, mode) == nPages * TokensPerPage(mode)

EstimateCost(nPages, mode) ==
  EstimateTokens(nPages, mode) * PriceIn + OutputTokens * PriceOut

\* The estimator counting the pages left out instead of the pages retained
EstimateResponse_CountsRemoved(doc, mode, removeText) ==
  LET gone == doc.removed \cup (PagesNamed[removeText] \cap AllPages(doc.name))
  IN  [ input_tokens |-> EstimateTokens(Cardinality(gone), mode),
        output_tokens |-> OutputTokens,
        estimated_cost |-> EstimateCost(Cardinality(gone), mode),
        retained |-> Cardinality(gone) ]

\* /estimate_tokens_cost on a held document with a page list to leave out
EstimateResponse(doc, mode, removeText) ==
  LET retained == (AllPages(doc.name) \ doc.removed) \ PagesNamed[removeText]
  IN  [ input_tokens |-> EstimateTokens(Cardinality(retained), mode),
        output_tokens |-> OutputTokens,
        estimated_cost |-> EstimateCost(Cardinality(retained), mode),
        retained |-> Cardinality(retained) ]

\* GET /industries
IndustryData ==
  << [ key |-> "bank", name |-> "Banking", factors |-> << "f1", "f2" >> ],
     [ key |-> "tech", name |-> "Technology", factors |-> << "f3" >> ] >>

\* The score breakdowns the scoring oracle may return: a full one, and one
\* with fields left out.
FullRow == [ factor |-> "Leverage", value |-> "3", band |-> "Baa",
             weight |-> "40", weighted_score |-> "12", notes |-> "n" ]

ScoreResponses ==
  { [ table |-> << FullRow >>, composite_score |-> "61", final_rating |-> "Baa2" ],
    [ table |-> << [ value |-> "3" ] >> ] }

\* What /analyze may answer: the breakdowns above, and one under the
\* `breakdown` field with a row that names no factor.
AnalyzeResponses ==
  ScoreResponses \cup
    { [ breakdown |-> << [ weight |-> "40", value |-> "3" ] >>, composite_score |-> "61" ] }

\* A set of pages as a page-list text: ranges a-b and single pages, by commas
DigitText(n) ==
  CASE n = 1 -> "1" [] n = 2 -> "2" [] n = 3 -> "3" [] n = 4 -> "4" [] OTHER -> "0"

Least(S) == CHOOSE a \in S : \A b \in S : a <= b

RunEnd(S) ==
  LET a == Least(S) IN CHOOSE b \in S : (a .. b) \subseteq S /\ (b + 1) \notin S

RECURSIVE RangesText(_)
RangesText(S) ==
  IF S = {} THEN EmptyText
  ELSE LET a == Least(S)
           b == RunEnd(S)
           head == IF a = b THEN << DigitText(a) >>
                   ELSE << DigitText(a), "-", DigitText(b) >>
           rest == S \ (a .. b)
       IN  IF rest = {} THEN head ELSE head \o << "," >> \o RangesText(rest)

CutSuggestion(name) == RangesText(AutocutPages(name, TRUE))

\* ------------------------------------------------------------ state
VARIABLES
  \* App.js useState
  file, fileId, costMode, preMode, cutForce, keepForce, aggressive,
  pagesToRemoveRaw, busy, toast,
  industries, manualIndustry, selectedIndustry, manualFactors, result,
  \* the mount effect's GET /industries: "sent", "ok", "failed" or "done"
  loading,
  \* the async handlers waiting for the server
  calls,
  \* the server's documents, by file id
  docs,
  \* the file ids the client has read from a response
  returned,
  \* user events so far
  events,
  \* edits of the industry section so far
  edits,
  \* the page script that is loaded: "react", "settings" or "legacy"
  page,
  \* the browser's storage, by item name
  localStorage, sessionStorage,
  \* main.js: the key, model and Remember inputs, the "saved" message, and
  \* the error postJSON last threw to its caller
  keyInput, modelInput, remember, savedMsg, postError,
  \* the legacy page script: its inputs, its uploadedId, and what it shows
  apiKeyInput, rememberKey, uploadedId, cutPages, modeRadios, analyzeStatus,
  estimateOut, rendered, alerted

appState ==
  << file, fileId, costMode, preMode, cutForce, keepForce, aggressive,
     pagesToRemoveRaw, busy, toast, result >>

industryState ==
  << industries, manualIndustry, selectedIndustry, manualFactors, loading, edits >>

storage == << localStorage, sessionStorage >>

settingsState == << keyInput, modelInput, remember, savedMsg, postError >>

legacyState ==
  << apiKeyInput, rememberKey, uploadedId, cutPages, modeRadios, analyzeStatus,
     estimateOut, rendered, alerted >>

vars ==
  << appState, industryState, calls, docs, returned, events, page, storage,
     settingsState, legacyState >>

\* ------------------------------------------------------------ requests
Pending == BagToSet(calls)

NumCalls == BagCardinality(calls)

Add(b, c) == b (+) SetToBag({ c })

Remove(b, c) == b (-) SetToBag({ c })

NoFields == [ k \in {} |-> "" ]

\* App.js postJSON sends a JSON content type and nothing else; postForm sends
\* no header of its own.
AppHeaders(path) ==
  IF path = "/upload" THEN NoFields ELSE [ ContentType |-> "application/json" ]

\* A request waiting for the server, and the handler that waits for it
Request(op, path, headers, body, then) ==
  [ op |-> op, pc |-> "sent", path |-> path, headers |-> headers, body |-> body,
    then |-> then, resp |-> Null ]

\* App.js postJSON / postForm: fetch(url, {method: "POST", ...})
Call(op, path, body, then) == Request(op, path, AppHeaders(path), body, then)

Reply(c, ok, data) == [ c EXCEPT !.pc = "replied", !.resp = [ ok |-> ok, data |-> data ] ]

\* A toast: its message, the error text it quotes, and the amount it shows.
NaN == -1
Toast(msg, detail, cost) == [ msg |-> msg, detail |-> detail, cost |-> cost ]

\* The handlers the action buttons start.
ActionOps ==
  { "onUpload", "onEstimateRaw", "onPreprocess", "onEstimateFiltered",
    "onReset", "onAnalyze" }

\* The catch block of each handler
ErrorMsg(op) ==
  CASE op = "onUpload" -> "Upload failed"
    [] op = "onEstimateRaw" -> "Estimator error"
    [] op = "onEstimateFiltered" -> "Estimator error"
    [] op = "onPreprocess" -> "Preprocess error"
    [] op = "onReset" -> "Reset failed"
    [] op = "onAnalyze" -> "Analyze error"
    [] OTHER -> "Failed to load industries"

\* The request each handler makes once it has a file id
MainPath(op) ==
  CASE op = "onPreprocess" -> "/preprocess-pdf"
    [] op = "onAnalyze" -> "/score"
    [] OTHER -> "/estimate_tokens_cost"

\* { file_id: fid, ...body }
WithId(body, fid) == [ file_id |-> fid ] @@ body

NoFactors == NoFields


\* ------------------------------------------------------------ pages
\* A step of the App component, of the key settings script, of the legacy
\* page script: the other scripts are not loaded and their state stays.
InApp ==
  /\ page = "react"
  /\ UNCHANGED << page, storage, settingsState, legacyState >>

InSettings ==
  /\ page = "settings"
  /\ UNCHANGED << appState, industryState, docs, returned, page, legacyState >>

InLegacy ==
  /\ page = "legacy"
  /\ UNCHANGED << appState, industryState, page, settingsState >>

\* ------------------------------------------------------------ React client
AppInit ==
  /\ file = NoFile
  /\ fileId = NoId
  /\ costMode = "text"
  /\ preMode = "text"
  /\ cutForce = EmptyText
  /\ keepForce = EmptyText
  /\ aggressive = TRUE
  /\ pagesToRemoveRaw = EmptyText
  /\ busy = FALSE
  /\ toast = Null
  /\ industries = << >>
  /\ manualIndustry = FALSE
  /\ selectedIndustry = Null
  /\ manualFactors = NoFactors
  /\ edits = 0
  /\ result = Null
  /\ loading = "sent"
  /\ calls = EmptyBag
  /\ docs = << >>
  /\ returned = {}
  /\ events = 0

\* A user event, within the run's budget
Event == events < MaxEvents /\ events' = events + 1

Edit == edits < MaxEdits /\ edits' = edits + 1

\* ensureUploaded, then the handler's request: with a file id the request
\* goes out at once; with a file and no id the file is uploaded first and the
\* request body waits in `then`.
EnsuredCall(op, body) ==
  IF fileId # NoId
  THEN Call(op, MainPath(op), WithId(body, fileId), Null)
  ELSE Call(op, "/upload", [ file |-> file.name ], body)

\* ensureUploaded throws "Please upload a PDF first."
NothingToUpload == fileId = NoId /\ file = NoFile

\* A handler whose try block is setBusy(true); await ensureUploaded(); await postJSON(...)
StartGuarded(op, body) ==
  /\ ~busy
  /\ Event
  /\ IF NothingToUpload
     THEN /\ toast' = Toast(ErrorMsg(op), "Please upload a PDF first.", 0)
          /\ busy' = FALSE
          /\ UNCHANGED calls
     ELSE /\ busy' = TRUE
          /\ calls' = Add(calls, EnsuredCall(op, body))
          /\ UNCHANGED toast
  /\ UNCHANGED << file, fileId, costMode, preMode, cutForce, keepForce, aggressive,
                  pagesToRemoveRaw, result, industryState, docs, returned >>
  /\ InApp

onEstimateRawBody == [ mode |-> costMode, pages_to_remove |-> parsePages(pagesToRemoveRaw) ]

onEstimateRaw == StartGuarded("onEstimateRaw", onEstimateRawBody)

\* onPreprocess with its page lists normalised by parsePages, as onEstimateRaw does
onPreprocessBody_Normalised ==
  [ mode |-> preMode, aggressive |-> aggressive,
    force_cut |-> parsePages(cutForce), force_keep |-> parsePages(keepForce) ]

onPreprocessBody ==
  [ mode |-> preMode, aggressive |-> aggressive,
    force_cut |-> cutForce, force_keep |-> keepForce ]

onPreprocess == StartGuarded("onPreprocess", onPreprocessBody)

onEstimateFilteredBody == [ mode |-> preMode ]

onEstimateFiltered == StartGuarded("onEstimateFiltered", onEstimateFilteredBody)

\* uploadFile(blob), as onUpload and onReset call it
UploadCall(op, f) == Call(op, "/upload", [ file |-> f.name ], Null)

onReset ==
  /\ ~busy
  /\ Event
  /\ IF file = NoFile
     THEN /\ toast' = Toast("Nothing to reset (upload a PDF first).", "", 0)
          /\ UNCHANGED << busy, calls >>
     ELSE /\ busy' = TRUE
          /\ calls' = Add(calls, UploadCall("onReset", file))
          /\ UNCHANGED toast
  /\ UNCHANGED << file, fileId, costMode, preMode, cutForce, keepForce, aggressive,
                  pagesToRemoveRaw, result, industryState, docs, returned >>
  /\ InApp

\* The /score body without its file_id
onAnalyzeBody ==
  LET withIndustry ==
        IF manualIndustry /\ selectedIndustry # Null
        THEN [ industry_key |-> selectedIndustry.key ]
        ELSE NoFields
      withFactors ==
        IF manualIndustry /\ DOMAIN manualFactors # {}
        THEN [ manual_factors |-> manualFactors ]
        ELSE NoFields
  IN  withIndustry @@ withFactors

\* onAnalyze calls setBusy(true) only after ensureUploaded has returned.
onAnalyze ==
  /\ ~busy
  /\ Event
  /\ IF NothingToUpload
     THEN /\ toast' = Toast(ErrorMsg("onAnalyze"), "Upload a PDF first.", 0)
          /\ busy' = FALSE
          /\ UNCHANGED calls
     ELSE /\ busy' = (fileId # NoId)
          /\ calls' = Add(calls, EnsuredCall("onAnalyze", onAnalyzeBody))
          /\ UNCHANGED toast
  /\ UNCHANGED << file, fileId, costMode, preMode, cutForce, keepForce, aggressive,
                  pagesToRemoveRaw, result, industryState, docs, returned >>
  /\ InApp

onUpload(f) ==
  /\ Event
  /\ file' = f
  /\ result' = Null
  /\ pagesToRemoveRaw' = EmptyText
  /\ cutForce' = EmptyText
  /\ keepForce' = EmptyText
  /\ busy' = TRUE
  /\ calls' = Add(calls, UploadCall("onUpload", f))
  /\ UNCHANGED << fileId, costMode, preMode, aggressive, toast,
                  industryState, docs, returned >>
  /\ InApp

\* FileDrop handleFiles: a file that is not a PDF is refused with an alert
handleFiles(f) ==
  IF IsPdfName(f) THEN onUpload(f) ELSE UNCHANGED vars

\* The Choose file button is disabled while busy.
ChooseFile == \E f \in Files : ~busy /\ handleFiles(f)

\* The drop zone's onDrop
DropFile == \E f \in Files : handleFiles(f)


\* ------------------------------------------------------------ server steps
Sent(c) == c \in Pending /\ c.pc = "sent"

Replied(c) == c \in Pending /\ c.pc = "replied"

Answer(c, ok, data) == calls' = Add(Remove(calls, c), Reply(c, ok, data))

clientState ==
  << appState, industryState, returned, events, page, storage, settingsState,
     legacyState >>

\* Any request may get a non-2xx answer with a detail text, or fail in fetch.
Failures == { [ detail |-> "detail" ], [ detail |-> "Failed to fetch", thrown |-> TRUE ] }

ServerFail(c) ==
  /\ Sent(c)
  /\ \E data \in Failures : Answer(c, FALSE, data)
  /\ UNCHANGED << clientState, docs >>

\* POST /upload: the blob is held under a fresh file id.
ServerUpload(c) ==
  /\ Sent(c)
  /\ c.path = "/upload"
  /\ docs' = Append(docs, [ name |-> c.body.file, removed |-> {} ])
  /\ Answer(c, TRUE, [ file_id |-> Len(docs) + 1 ])
  /\ UNCHANGED clientState

\* A 2xx answer to /upload that carries no file_id
ServerUploadNoId(c) ==
  /\ Sent(c)
  /\ c.path = "/upload"
  /\ Answer(c, TRUE, [ file_id |-> NoId ])
  /\ UNCHANGED << clientState, docs >>

BodyPagesToRemove(body) ==
  IF "pages_to_remove" \in DOMAIN body THEN body.pages_to_remove
  ELSE IF "pages" \in DOMAIN body THEN body.pages
  ELSE EmptyText

\* POST /estimate_tokens_cost
ServerEstimate(c) ==
  /\ Sent(c)
  /\ c.path \in { "/estimate_tokens_cost", "/estimate" }
  /\ c.body.file_id \in DOMAIN docs
  /\ ValidPageList(BodyPagesToRemove(c.body), docs[c.body.file_id].name)
  /\ Answer(c, TRUE,
            EstimateResponse(docs[c.body.file_id], c.body.mode, BodyPagesToRemove(c.body)))
  /\ UNCHANGED << clientState, docs >>

\* The pages a /preprocess-pdf request removes from the document it names
PagesRemoved(doc, body) ==
  PreprocessRemoved(doc.name, body.aggressive, body.force_cut, body.force_keep)
    \ doc.removed

\* POST /preprocess-pdf: the filtered document is held under a new derived id
\* (derive), or replaces the document under the same id; the answer names the
\* id (withId) or leaves it out.
ServerPreprocess(c) ==
  /\ Sent(c)
  /\ c.path = "/preprocess-pdf"
  /\ c.body.file_id \in DOMAIN docs
  /\ LET doc == docs[c.body.file_id]
         gone == PagesRemoved(doc, c.body)
         filtered == [ doc EXCEPT !.removed = doc.removed \cup gone ]
     IN  /\ ValidPageList(c.body.force_cut, doc.name)
         /\ ValidPageList(c.body.force_keep, doc.name)
         /\ \E derive \in BOOLEAN, withId \in BOOLEAN :
              /\ derive => withId
              /\ docs' = IF derive THEN Append(docs, filtered)
                         ELSE [ docs EXCEPT ![c.body.file_id] = filtered ]
              /\ Answer(c, TRUE,
                        [ file_id |-> IF derive THEN Len(docs) + 1
                                      ELSE IF withId THEN c.body.file_id ELSE NoId,
                          pages_removed |-> gone,
                          kept_pages |-> AllPages(doc.name) \ filtered.removed ])
  /\ UNCHANGED clientState

\* POST /score: the scoring oracle's breakdown
ServerScore(c) ==
  /\ Sent(c)
  /\ c.path \in { "/score", "/analyze" }
  /\ c.body.file_id \in DOMAIN docs
  /\ \E r \in IF c.path = "/analyze" THEN AnalyzeResponses ELSE ScoreResponses :
       Answer(c, TRUE, r)
  /\ UNCHANGED << clientState, docs >>

\* GET /industries
\* POST /autocut: the suggested removal list, as a page-list text
ServerAutocut(c) ==
  /\ Sent(c)
  /\ c.path = "/autocut"
  /\ c.body.file_id \in DOMAIN docs
  /\ Answer(c, TRUE, [ cut_suggestion |-> CutSuggestion(docs[c.body.file_id].name) ])
  /\ UNCHANGED << clientState, docs >>

ServerIndustries ==
  /\ page = "react"
  /\ loading = "sent"
  /\ loading' \in { "ok", "failed" }
  /\ UNCHANGED << appState, industries, manualIndustry, selectedIndustry,
                  manualFactors, calls, docs, returned, events, edits, page, storage,
                  settingsState, legacyState >>


\* ------------------------------------------------------------ continuations
\* uploadFile without its check of data.file_id
UploadOk_AnyOk(c) == c.resp.ok

\* uploadFile got a 2xx answer with a file_id
UploadOk(c) == c.resp.ok /\ c.resp.data.file_id # NoId

\* The text of the error a failed request throws
ErrorText(c) == IF c.resp.ok THEN "Upload failed: no file_id" ELSE c.resp.data.detail

\* catch (e) { setToast(...) } without the finally block
Caught_NoFinally(c) ==
  /\ toast' = Toast(ErrorMsg(c.op), ErrorText(c), 0)
  /\ UNCHANGED busy
  /\ calls' = Remove(calls, c)

\* catch (e) { setToast(...) } finally { setBusy(false) }
Caught(c) ==
  /\ toast' = Toast(ErrorMsg(c.op), ErrorText(c), 0)
  /\ busy' = FALSE
  /\ calls' = Remove(calls, c)

UploadStage(c) == Replied(c) /\ c.path = "/upload"

MainStage(c) == Replied(c) /\ c.path # "/upload"

\* ensureUploaded returns inside a handler: uploadFile sets the file id and
\* the handler goes on to its own request; onAnalyze sets busy here.
ensureUploadedDone(c) ==
  /\ UploadStage(c)
  /\ c.op \in { "onEstimateRaw", "onPreprocess", "onEstimateFiltered", "onAnalyze" }
  /\ IF UploadOk(c)
     THEN /\ fileId' = c.resp.data.file_id
          /\ returned' = returned \cup { c.resp.data.file_id }
          /\ calls' = Add(Remove(calls, c),
                          Call(c.op, MainPath(c.op),
                               WithId(c.then, c.resp.data.file_id), Null))
          /\ busy' = IF c.op = "onAnalyze" THEN TRUE ELSE busy
          /\ UNCHANGED toast
     ELSE /\ Caught(c)
          /\ UNCHANGED << fileId, returned >>
  /\ UNCHANGED << file, costMode, preMode, cutForce, keepForce, aggressive,
                  pagesToRemoveRaw, result, industryState, docs, events >>
  /\ InApp

onUploadDone(c) ==
  /\ UploadStage(c)
  /\ c.op = "onUpload"
  /\ IF UploadOk(c)
     THEN /\ fileId' = c.resp.data.file_id
          /\ returned' = returned \cup { c.resp.data.file_id }
          /\ toast' = Toast("File uploaded.", "", 0)
          /\ busy' = FALSE
          /\ calls' = Remove(calls, c)
     ELSE /\ Caught(c)
          /\ UNCHANGED << fileId, returned >>
  /\ UNCHANGED << file, costMode, preMode, cutForce, keepForce, aggressive,
                  pagesToRemoveRaw, result, industryState, docs, events >>
  /\ InApp

\* onReset without its setKeepForce("")
onResetClears_KeepsKeepForce ==
  /\ cutForce' = EmptyText
  /\ pagesToRemoveRaw' = EmptyText
  /\ result' = Null
  /\ UNCHANGED keepForce

\* setCutForce(""); setKeepForce(""); setPagesToRemoveRaw(""); setResult(null)
onResetClears ==
  /\ cutForce' = EmptyText
  /\ keepForce' = EmptyText
  /\ pagesToRemoveRaw' = EmptyText
  /\ result' = Null

onResetDone(c) ==
  /\ UploadStage(c)
  /\ c.op = "onReset"
  /\ IF UploadOk(c)
     THEN /\ fileId' = c.resp.data.file_id
          /\ returned' = returned \cup { c.resp.data.file_id }
          /\ onResetClears
          /\ toast' = Toast("PDF reset to full document.", "", 0)
          /\ busy' = FALSE
          /\ calls' = Remove(calls, c)
     ELSE /\ Caught(c)
          /\ UNCHANGED << fileId, returned, cutForce, keepForce,
                          pagesToRemoveRaw, result >>
  /\ UNCHANGED << file, costMode, preMode, aggressive, industryState, docs, events >>
  /\ InApp

\* Number(data.cost_usd).toFixed(4): the amount, or NaN when the field is missing
ShownCost(data) == IF "cost_usd" \in DOMAIN data THEN data.cost_usd ELSE NaN

EstimateMsg(op) ==
  IF op = "onEstimateRaw" THEN "Estimated LLM cost (raw)"
  ELSE "Estimated LLM cost (filtered)"

onEstimateDone(c) ==
  /\ MainStage(c)
  /\ c.op \in { "onEstimateRaw", "onEstimateFiltered" }
  /\ IF c.resp.ok
     THEN /\ toast' = Toast(EstimateMsg(c.op), "", ShownCost(c.resp.data))
          /\ busy' = FALSE
          /\ calls' = Remove(calls, c)
     ELSE Caught(c)
  /\ UNCHANGED << file, fileId, costMode, preMode, cutForce, keepForce, aggressive,
                  pagesToRemoveRaw, result, industryState, docs, returned, events >>
  /\ InApp

onPreprocessDone(c) ==
  /\ MainStage(c)
  /\ c.op = "onPreprocess"
  /\ IF c.resp.ok
     THEN /\ fileId' = IF c.resp.data.file_id # NoId THEN c.resp.data.file_id ELSE fileId
          /\ returned' = returned \cup ({ c.resp.data.file_id } \ { NoId })
          /\ toast' = Toast("Preprocess OK.", "", 0)
          /\ busy' = FALSE
          /\ calls' = Remove(calls, c)
     ELSE /\ Caught(c)
          /\ UNCHANGED << fileId, returned >>
  /\ UNCHANGED << file, costMode, preMode, cutForce, keepForce, aggressive,
                  pagesToRemoveRaw, result, industryState, docs, events >>
  /\ InApp

\* `Final rating: ${data.final_rating}`
RatingText(data) ==
  IF "final_rating" \in DOMAIN data THEN data.final_rating ELSE "undefined"

\* onAnalyze with setResult(null) in its catch block
onAnalyzeDone_ClearsOnFailure(c) ==
  /\ MainStage(c)
  /\ c.op = "onAnalyze"
  /\ IF c.resp.ok
     THEN /\ result' = c.resp.data
          /\ toast' = Toast("Analyze complete.", RatingText(c.resp.data), 0)
          /\ busy' = FALSE
          /\ calls' = Remove(calls, c)
     ELSE /\ Caught(c)
          /\ result' = Null
  /\ UNCHANGED << file, fileId, costMode, preMode, cutForce, keepForce, aggressive,
                  pagesToRemoveRaw, industryState, docs, returned, events >>
  /\ InApp

onAnalyzeDone(c) ==
  /\ MainStage(c)
  /\ c.op = "onAnalyze"
  /\ IF c.resp.ok
     THEN /\ result' = c.resp.data
          /\ toast' = Toast("Analyze complete.", RatingText(c.resp.data), 0)
          /\ busy' = FALSE
          /\ calls' = Remove(calls, c)
     ELSE /\ Caught(c)
          /\ UNCHANGED result
  /\ UNCHANGED << file, fileId, costMode, preMode, cutForce, keepForce, aggressive,
                  pagesToRemoveRaw, industryState, docs, returned, events >>
  /\ InApp

\* The mount effect's then / catch
loadIndustriesDone ==
  /\ loading \in { "ok", "failed" }
  /\ loading' = "done"
  /\ IF loading = "ok"
     THEN industries' = IndustryData /\ UNCHANGED toast
     ELSE toast' = Toast(ErrorMsg("loadIndustries"), "detail", 0) /\ UNCHANGED industries
  /\ UNCHANGED << file, fileId, costMode, preMode, cutForce, keepForce, aggressive,
                  pagesToRemoveRaw, busy, result, manualIndustry, selectedIndustry,
                  manualFactors, calls, docs, returned, events, edits >>
  /\ InApp

\* ------------------------------------------------------------ form edits
ModeSelectorChange ==
  /\ Event
  /\ \E m \in Modes :
       \/ costMode # m /\ costMode' = m /\ UNCHANGED preMode
       \/ preMode # m /\ preMode' = m /\ UNCHANGED costMode
  /\ UNCHANGED << file, fileId, cutForce, keepForce, aggressive, pagesToRemoveRaw,
                  busy, toast, result, industryState, calls, docs, returned >>
  /\ InApp

\* The page-list inputs and the Aggressive checkbox of PageControls and App
PageInputChange ==
  /\ Event
  /\ \/ \E t \in PageTexts \ { cutForce } :
          cutForce' = t /\ UNCHANGED << keepForce, pagesToRemoveRaw, aggressive >>
     \/ \E t \in PageTexts \ { keepForce } :
          keepForce' = t /\ UNCHANGED << cutForce, pagesToRemoveRaw, aggressive >>
     \/ \E t \in PageTexts \ { pagesToRemoveRaw } :
          pagesToRemoveRaw' = t /\ UNCHANGED << cutForce, keepForce, aggressive >>
     \/ aggressive' = ~aggressive /\ UNCHANGED << cutForce, keepForce, pagesToRemoveRaw >>
  /\ UNCHANGED << file, fileId, costMode, preMode, busy, toast, result,
                  industryState, calls, docs, returned >>
  /\ InApp

DismissToast ==
  /\ Event
  /\ toast # Null
  /\ toast' = Null
  /\ UNCHANGED << file, fileId, costMode, preMode, cutForce, keepForce, aggressive,
                  pagesToRemoveRaw, busy, result, industryState, calls, docs,
                  returned >>
  /\ InApp


\* ------------------------------------------------------------ industry section
\* What the user may type into a factor input.
FactorTexts == { "7", "" }

\* industries.find(x => x.key === key || x.id === key || x.name === key)
FindIndustry(key) ==
  LET hits == { i \in 1 .. Len(industries) :
                  industries[i].key = key \/ industries[i].name = key }
  IN  IF hits = {} THEN Null
      ELSE industries[CHOOSE i \in hits : \A j \in hits : i <= j]

\* The values of the select's options: "" (None) and each industry's key
OptionValues == { "" } \cup { industries[i].key : i \in 1 .. Len(industries) }

setManualIndustry ==
  /\ Edit
  /\ manualIndustry' = ~manualIndustry
  /\ UNCHANGED << appState, industries, selectedIndustry, manualFactors, loading,
                  calls, docs, returned, events >>
  /\ InApp

\* onPickIndustry without setManualFactors({})
onPickIndustry_KeepsFactors ==
  /\ Edit
  /\ manualIndustry
  /\ \E key \in OptionValues : selectedIndustry' = FindIndustry(key)
  /\ UNCHANGED << appState, industries, manualIndustry, manualFactors, loading, calls,
                  docs, returned, events >>
  /\ InApp

\* The select is disabled unless the manual-industry checkbox is on.
onPickIndustry ==
  /\ Edit
  /\ manualIndustry
  /\ \E key \in OptionValues :
       /\ selectedIndustry' = FindIndustry(key)
       /\ manualFactors' = NoFactors
  /\ UNCHANGED << appState, industries, manualIndustry, loading, calls, docs, returned, events >>
  /\ InApp

\* The factor inputs are rendered for the selected industry's factors only.
onChangeManualFactor ==
  /\ Edit
  /\ manualIndustry
  /\ selectedIndustry # Null
  /\ \E i \in 1 .. Len(selectedIndustry.factors), raw \in FactorTexts :
       LET fkey == selectedIndustry.factors[i]
       IN  manualFactors' =
             [ k \in DOMAIN manualFactors \cup { fkey } |->
                 IF k = fkey THEN raw ELSE manualFactors[k] ]
  /\ UNCHANGED << appState, industries, manualIndustry, selectedIndustry, loading,
                  calls, docs, returned, events >>
  /\ InApp

\* ------------------------------------------------------------ main.js
\* What the user may type into the key and model inputs.
KeyTexts == { << >>, << "k" >>, << " ", "k", " " >> }

ModelTexts == { << >>, << "m" >> }

DefaultModel == << "gpt-4.1-mini" >>

\* Storage.setItem / removeItem / getItem(...) !== null
setItem(store, k, v) ==
  [ x \in DOMAIN store \cup { k } |-> IF x = k THEN v ELSE store[x] ]

removeItem(store, k) == [ x \in DOMAIN store \ { k } |-> store[x] ]

hasItem(store, k) == k \in DOMAIN store

\* sessionStorage.getItem(k) ?? localStorage.getItem(k) ?? fallback
StoredOr(k, fallback) ==
  IF hasItem(sessionStorage, k) THEN sessionStorage[k]
  ELSE IF hasItem(localStorage, k) THEN localStorage[k]
  ELSE fallback

getApiAuth ==
  [ key |-> StoredOr("OPENAI_KEY", << >>),
    model |-> StoredOr("OPENAI_MODEL", DefaultModel) ]

\* initApiSettings on the inputs as the page's markup leaves them: a saved,
\* non-empty key fills the key input and checks Remember; a saved, non-empty
\* model fills the model input.
Loaded ==
  LET savedKey == hasItem(localStorage, "OPENAI_KEY") /\ localStorage["OPENAI_KEY"] # << >>
      savedModel ==
        hasItem(localStorage, "OPENAI_MODEL") /\ localStorage["OPENAI_MODEL"] # << >>
  IN  /\ keyInput' = IF savedKey THEN localStorage["OPENAI_KEY"] ELSE << >>
      /\ remember' = savedKey
      /\ modelInput' = IF savedModel THEN localStorage["OPENAI_MODEL"] ELSE << >>
      /\ savedMsg' = FALSE

SettingsInit ==
  /\ localStorage = NoFields
  /\ sessionStorage = NoFields
  /\ keyInput = << >>
  /\ modelInput = << >>
  /\ remember = FALSE
  /\ savedMsg = FALSE
  /\ postError = ""

KeyInputChange ==
  /\ Event
  /\ \E t \in KeyTexts \ { keyInput } : keyInput' = t
  /\ UNCHANGED << modelInput, remember, savedMsg, postError, storage, calls >>
  /\ InSettings

ModelInputChange ==
  /\ Event
  /\ \E t \in ModelTexts \ { modelInput } : modelInput' = t
  /\ UNCHANGED << keyInput, remember, savedMsg, postError, storage, calls >>
  /\ InSettings

RememberChange ==
  /\ Event
  /\ remember' = ~remember
  /\ UNCHANGED << keyInput, modelInput, savedMsg, postError, storage, calls >>
  /\ InSettings

\* saveOpenAI without the removeItem calls on the other store
saveOpenAI_KeepsOther ==
  /\ Event
  /\ LET key == Trim(keyInput)
         model == IF Trim(modelInput) = << >> THEN DefaultModel ELSE Trim(modelInput)
         put(store) == setItem(setItem(store, "OPENAI_KEY", key), "OPENAI_MODEL", model)
     IN  IF remember
         THEN localStorage' = put(localStorage) /\ UNCHANGED sessionStorage
         ELSE sessionStorage' = put(sessionStorage) /\ UNCHANGED localStorage
  /\ savedMsg' = TRUE
  /\ UNCHANGED << keyInput, modelInput, remember, postError, calls >>
  /\ InSettings

saveOpenAI ==
  /\ Event
  /\ LET key == Trim(keyInput)
         model == IF Trim(modelInput) = << >> THEN DefaultModel ELSE Trim(modelInput)
         put(store) == setItem(setItem(store, "OPENAI_KEY", key), "OPENAI_MODEL", model)
         drop(store) == removeItem(removeItem(store, "OPENAI_KEY"), "OPENAI_MODEL")
     IN  IF remember
         THEN localStorage' = put(localStorage) /\ sessionStorage' = drop(sessionStorage)
         ELSE sessionStorage' = put(sessionStorage) /\ localStorage' = drop(localStorage)
  /\ savedMsg' = TRUE
  /\ UNCHANGED << keyInput, modelInput, remember, postError, calls >>
  /\ InSettings

\* setTimeout(() => m.style.display = 'none', 1200)
savedMsgTimeout ==
  /\ savedMsg
  /\ savedMsg' = FALSE
  /\ UNCHANGED << keyInput, modelInput, remember, postError, storage, calls, events >>
  /\ InSettings

clearOpenAI ==
  /\ Event
  /\ localStorage' = removeItem(removeItem(localStorage, "OPENAI_KEY"), "OPENAI_MODEL")
  /\ sessionStorage' = removeItem(removeItem(sessionStorage, "OPENAI_KEY"), "OPENAI_MODEL")
  /\ keyInput' = << >>
  /\ modelInput' = DefaultModel
  /\ remember' = FALSE
  /\ UNCHANGED << savedMsg, postError, calls >>
  /\ InSettings

\* The page is loaded again: the script starts over, the storage stays.
Reload ==
  /\ Event
  /\ Loaded
  /\ postError' = ""
  /\ calls' = EmptyBag
  /\ UNCHANGED storage
  /\ InSettings

\* The paths a caller of main.js postJSON may post to
PostPaths == { "/score", "/estimate_tokens_cost" }

AuthHeaders(auth) ==
  [ ContentType |-> "application/json", XOpenAIKey |-> auth.key,
    XOpenAIModel |-> auth.model ]

\* main.js postJSON(path, body): no key, no fetch
postJSON ==
  /\ Event
  /\ \E path \in PostPaths :
       IF getApiAuth.key = << >>
       THEN /\ postError' = "OpenAI key not set (paste it at the top and click Save)."
            /\ UNCHANGED calls
       ELSE /\ calls' = Add(calls, Request("postJSON", path, AuthHeaders(getApiAuth),
                                           [ file_id |-> NoId ], Null))
            /\ postError' = ""
  /\ UNCHANGED << keyInput, modelInput, remember, savedMsg, storage >>
  /\ InSettings

postJSONDone(c) ==
  /\ Replied(c)
  /\ c.op = "postJSON"
  /\ postError' = IF c.resp.ok THEN "" ELSE c.resp.data.detail
  /\ calls' = Remove(calls, c)
  /\ UNCHANGED << keyInput, modelInput, remember, savedMsg, storage, events >>
  /\ InSettings

SettingsEvent ==
  \/ KeyInputChange
  \/ ModelInputChange
  \/ RememberChange
  \/ saveOpenAI
  \/ savedMsgTimeout
  \/ clearOpenAI
  \/ Reload
  \/ postJSON

\* ------------------------------------------------------------ legacy page
\* JSON null in a text field of a request body
NullText == << "null" >>

\* key || null
OrNull(t) == IF t = << >> THEN NullText ELSE t

\* r[k] ?? d
Field(r, k, d) == IF k \in DOMAIN r THEN r[k] ELSE d

\* ${r[k]}
Interpolated(r, k) == Field(r, k, "undefined")

LS_KEY == "creditrater_openai_key"

getApiKey == Trim(apiKeyInput)

NoOutput == [ text |-> "" ]

NoRender == [ rows |-> << >>, rating |-> "", composite |-> "" ]

\* The page as loaded with nothing remembered: initKey leaves the inputs alone.
LegacyInit ==
  /\ apiKeyInput = << >>
  /\ rememberKey = FALSE
  /\ uploadedId = NoId
  /\ cutPages = EmptyText
  /\ modeRadios = "text"
  /\ analyzeStatus = ""
  /\ estimateOut = NoOutput
  /\ rendered = NoRender
  /\ alerted = ""

apiKeyInputChange ==
  /\ Event
  /\ \E t \in KeyTexts \ { apiKeyInput } : apiKeyInput' = t
  /\ UNCHANGED << rememberKey, uploadedId, cutPages, modeRadios, analyzeStatus, estimateOut,
                  rendered, alerted, storage, calls, docs, returned >>
  /\ InLegacy

rememberKeyChange ==
  /\ Event
  /\ rememberKey' = ~rememberKey
  /\ UNCHANGED << apiKeyInput, uploadedId, cutPages, modeRadios, analyzeStatus, estimateOut,
                  rendered, alerted, storage, calls, docs, returned >>
  /\ InLegacy

saveKeyBtn ==
  /\ Event
  /\ IF getApiKey = << >>
     THEN /\ alerted' = "Please paste your OpenAI API key"
          /\ UNCHANGED storage
     ELSE /\ localStorage' = IF rememberKey THEN setItem(localStorage, LS_KEY, getApiKey)
                             ELSE removeItem(localStorage, LS_KEY)
          /\ alerted' = "Key ready for this session."
          /\ UNCHANGED sessionStorage
  /\ UNCHANGED << apiKeyInput, rememberKey, uploadedId, cutPages, modeRadios, analyzeStatus,
                  estimateOut, rendered, calls, docs, returned >>
  /\ InLegacy

modeChange ==
  /\ Event
  /\ \E m \in Modes \ { modeRadios } : modeRadios' = m
  /\ UNCHANGED << apiKeyInput, rememberKey, uploadedId, cutPages, analyzeStatus,
                  estimateOut, rendered, alerted, storage, calls, docs, returned >>
  /\ InLegacy

cutPagesChange ==
  /\ Event
  /\ \E t \in PageTexts \ { cutPages } : cutPages' = t
  /\ UNCHANGED << apiKeyInput, rememberKey, uploadedId, modeRadios, analyzeStatus,
                  estimateOut, rendered, alerted, storage, calls, docs, returned >>
  /\ InLegacy

\* fileInput change: the chosen PDF is uploaded at once
fileInputChange ==
  /\ Event
  /\ \E f \in { g \in Files : IsPdfName(g) } :
       calls' = Add(calls,
                    Call("fileInput", "/upload",
                         [ file |-> f.name ] @@
                           (IF getApiKey = << >> THEN NoFields
                            ELSE [ api_key |-> getApiKey ]),
                         Null))
  /\ analyzeStatus' = "Uploading"
  /\ UNCHANGED << apiKeyInput, rememberKey, uploadedId, cutPages, modeRadios, estimateOut,
                  rendered, alerted, storage, docs, returned >>
  /\ InLegacy

\* A handler that needs uploadedId: without one it alerts and returns.
NeedsUpload(text) ==
  /\ uploadedId = NoId
  /\ alerted' = text
  /\ UNCHANGED << analyzeStatus, estimateOut, rendered, calls >>

autocutBtn ==
  /\ Event
  /\ \/ NeedsUpload("Please upload a PDF first.")
     \/ /\ uploadedId # NoId
        /\ analyzeStatus' = "Finding irrelevant pages"
        /\ calls' = Add(calls, Call("autocutBtn", "/autocut", [ file_id |-> uploadedId ], Null))
        /\ UNCHANGED << estimateOut, rendered, alerted >>
  /\ UNCHANGED << apiKeyInput, rememberKey, uploadedId, cutPages, modeRadios, storage, docs,
                  returned >>
  /\ InLegacy

resetCutBtn ==
  /\ Event
  /\ cutPages' = EmptyText
  /\ UNCHANGED << apiKeyInput, rememberKey, uploadedId, modeRadios, analyzeStatus,
                  estimateOut, rendered, alerted, storage, calls, docs, returned >>
  /\ InLegacy

estimateBtnBody ==
  [ file_id |-> uploadedId, pages |-> Trim(cutPages), mode |-> modeRadios,
    api_key |-> OrNull(getApiKey) ]

estimateBtn ==
  /\ Event
  /\ \/ NeedsUpload("Upload a PDF first.")
     \/ /\ uploadedId # NoId
        /\ estimateOut' = [ text |-> "Estimating" ]
        /\ calls' = Add(calls, Call("estimateBtn", "/estimate", estimateBtnBody, Null))
        /\ UNCHANGED << analyzeStatus, rendered, alerted >>
  /\ UNCHANGED << apiKeyInput, rememberKey, uploadedId, cutPages, modeRadios, storage, docs,
                  returned >>
  /\ InLegacy

\* The industry select is left at (Auto-detect): no industry id, no manual values.
analyzeBtnBody ==
  [ file_id |-> uploadedId, pages |-> Trim(cutPages), mode |-> modeRadios,
    industry_id |-> Null, manual_values |-> NoFields, api_key |-> OrNull(getApiKey) ]

analyzeBtn ==
  /\ Event
  /\ \/ NeedsUpload("Upload a PDF first.")
     \/ /\ uploadedId # NoId
        /\ analyzeStatus' = "Analysing"
        /\ rendered' = NoRender
        /\ calls' = Add(calls, Call("analyzeBtn", "/analyze", analyzeBtnBody, Null))
        /\ UNCHANGED << estimateOut, alerted >>
  /\ UNCHANGED << apiKeyInput, rememberKey, uploadedId, cutPages, modeRadios, storage, docs,
                  returned >>
  /\ InLegacy

\* The handler's await fetch(...) rejects: nothing catches it, the handler ends.
Thrown(c) == ~c.resp.ok /\ "thrown" \in DOMAIN c.resp.data

LegacyDone(c, op) ==
  /\ Replied(c)
  /\ c.op = op
  /\ calls' = Remove(calls, c)
  /\ UNCHANGED << apiKeyInput, rememberKey, modeRadios, alerted, storage, docs, events >>
  /\ InLegacy

fileInputDone(c) ==
  /\ LegacyDone(c, "fileInput")
  /\ IF Thrown(c) THEN UNCHANGED << uploadedId, analyzeStatus, returned >>
     ELSE IF ~c.resp.ok
     THEN analyzeStatus' = "Upload failed." /\ UNCHANGED << uploadedId, returned >>
     ELSE /\ uploadedId' = c.resp.data.file_id
          /\ returned' = returned \cup ({ c.resp.data.file_id } \ { NoId })
          /\ analyzeStatus' = "PDF uploaded."
  /\ UNCHANGED << cutPages, estimateOut, rendered >>

\* autocutBtn after its fetch: res.ok is not looked at
autocutStatus(c) == "Autocut suggestion filled."

autocutBtnDone(c) ==
  /\ LegacyDone(c, "autocutBtn")
  /\ IF Thrown(c) THEN UNCHANGED << cutPages, analyzeStatus >>
     ELSE /\ cutPages' = Field(c.resp.data, "cut_suggestion", EmptyText)
          /\ analyzeStatus' = autocutStatus(c)
  /\ UNCHANGED << uploadedId, estimateOut, rendered, returned >>

estimateBtnDone(c) ==
  /\ LegacyDone(c, "estimateBtn")
  /\ IF Thrown(c) THEN UNCHANGED estimateOut
     ELSE IF c.resp.ok
     THEN estimateOut' =
            [ text |-> "Estimated",
              input_tokens |-> Interpolated(c.resp.data, "input_tokens"),
              output_tokens |-> Interpolated(c.resp.data, "output_tokens"),
              estimated_cost |-> Interpolated(c.resp.data, "estimated_cost") ]
     ELSE estimateOut' = [ text |-> Field(c.resp.data, "detail", "Failed to estimate.") ]
  /\ UNCHANGED << uploadedId, cutPages, analyzeStatus, rendered, returned >>

\* One <tr> of the legacy results table
LegacyRow(r) ==
  [ factor |-> Interpolated(r, "factor"),
    weight |-> Field(r, "weight", ""),
    description |-> Field(r, "description", Field(r, "value", "")),
    score |-> Field(r, "score", "") ]

LegacyRender(data) ==
  LET rows == Field(data, "breakdown", << >>)
  IN  [ rows |-> [ i \in DOMAIN rows |-> LegacyRow(rows[i]) ],
        rating |-> Field(data, "final_rating", "-"),
        composite |-> Field(data, "composite_score", "-") ]

analyzeBtnDone(c) ==
  /\ LegacyDone(c, "analyzeBtn")
  /\ IF Thrown(c) THEN UNCHANGED << analyzeStatus, rendered >>
     ELSE IF ~c.resp.ok
     THEN /\ analyzeStatus' = Field(c.resp.data, "detail", "Analysis failed.")
          /\ UNCHANGED rendered
     ELSE /\ analyzeStatus' = "Done."
          /\ rendered' = LegacyRender(c.resp.data)
  /\ UNCHANGED << uploadedId, cutPages, estimateOut, returned >>

LegacyEvent ==
  \/ apiKeyInputChange
  \/ rememberKeyChange
  \/ saveKeyBtn
  \/ modeChange
  \/ cutPagesChange
  \/ fileInputChange
  \/ autocutBtn
  \/ resetCutBtn
  \/ estimateBtn
  \/ analyzeBtn

LegacyContinuation ==
  \/ \E c \in Pending : fileInputDone(c)
  \/ \E c \in Pending : autocutBtnDone(c)
  \/ \E c \in Pending : estimateBtnDone(c)
  \/ \E c \in Pending : analyzeBtnDone(c)

\* ------------------------------------------------------------ specification
Pages == { "react", "settings", "legacy" }

Init ==
  /\ page \in Pages
  /\ AppInit
  /\ SettingsInit
  /\ LegacyInit

\* The document controls: upload, estimate, cut, reset, analyze and the
\* inputs they read.
UserEvent ==
  \/ ChooseFile
  \/ DropFile
  \/ onEstimateRaw
  \/ onPreprocess
  \/ onEstimateFiltered
  \/ onReset
  \/ onAnalyze
  \/ ModeSelectorChange
  \/ PageInputChange
  \/ DismissToast

ServerStep ==
  \/ \E c \in Pending : ServerFail(c)
  \/ \E c \in Pending : ServerUpload(c)
  \/ \E c \in Pending : ServerUploadNoId(c)
  \/ \E c \in Pending : ServerEstimate(c)
  \/ \E c \in Pending : ServerPreprocess(c)
  \/ \E c \in Pending : ServerAutocut(c)
  \/ \E c \in Pending : ServerScore(c)

Continuation ==
  \/ \E c \in Pending : ensureUploadedDone(c)
  \/ \E c \in Pending : onUploadDone(c)
  \/ \E c \in Pending : onResetDone(c)
  \/ \E c \in Pending : onEstimateDone(c)
  \/ \E c \in Pending : onPreprocessDone(c)
  \/ \E c \in Pending : onAnalyzeDone(c)

Next ==
  \/ UserEvent
  \/ ServerStep
  \/ Continuation
  \/ SettingsEvent
  \/ \E c \in Pending : postJSONDone(c)
  \/ LegacyEvent
  \/ LegacyContinuation

Spec == Init /\ [][Next]_vars

\* The six handlers of App that set busy, with the server and the
\* continuations; every request is answered and every answer is handled.
AppEvent ==
  \/ ChooseFile
  \/ DropFile
  \/ onEstimateRaw
  \/ onPreprocess
  \/ onEstimateFiltered
  \/ onReset
  \/ onAnalyze

AppServerStep ==
  \/ \E c \in Pending : ServerFail(c)
  \/ \E c \in Pending : ServerUpload(c)
  \/ \E c \in Pending : ServerUploadNoId(c)
  \/ \E c \in Pending : ServerEstimate(c)
  \/ \E c \in Pending : ServerPreprocess(c)
  \/ \E c \in Pending : ServerScore(c)

NextApp == AppEvent \/ AppServerStep \/ Continuation

InitApp == Init /\ page = "react"

SpecLive ==
  /\ InitApp
  /\ [][NextApp]_vars
  /\ WF_vars(AppServerStep)
  /\ WF_vars(Continuation)

\* The industry section of the React client, with upload and analyze, and a
\* server that accepts every upload
IndustryEvent ==
  \/ ChooseFile
  \/ onAnalyze
  \/ setManualIndustry
  \/ onPickIndustry
  \/ onChangeManualFactor

IndustryServerStep ==
  \/ ServerIndustries
  \/ \E c \in Pending : c.path = "/score" /\ ServerFail(c)
  \/ \E c \in Pending : ServerUpload(c)
  \/ \E c \in Pending : ServerScore(c)

IndustryContinuation ==
  \/ loadIndustriesDone
  \/ \E c \in Pending : onUploadDone(c)
  \/ \E c \in Pending : onAnalyzeDone(c)

NextIndustry == IndustryEvent \/ IndustryServerStep \/ IndustryContinuation

SpecIndustry == Init /\ [][NextIndustry]_vars

\* ------------------------------------------------------------ properties
\* A handler of `op` ends with this step, its request having succeeded.
Succeeds(c, op) ==
  /\ Replied(c)
  /\ c.op = op
  /\ c.resp.ok
  /\ calls' = Remove(calls, c)

FullDocument(f) == [ name |-> f, removed |-> {} ]

\* C1: a successful Reset leaves the client on a fresh upload of the file it
\* re-uploaded: the active file id is one the client has not seen before and
\* names that file's full document (no page removed, so as many pages as the
\* first upload had), and cutForce, keepForce and pagesToRemoveRaw are empty
\* and result is null; whatever uploads and preprocess runs came before.
C1_ResetRoundTrip ==
  [][ \A c \in Pending :
        Succeeds(c, "onReset") /\ UploadOk(c) =>
          /\ fileId' = c.resp.data.file_id
          /\ fileId' \notin returned
          /\ fileId' \in DOMAIN docs'
          /\ docs'[fileId'] = FullDocument(c.body.file)
          /\ Cardinality(AllPages(docs'[fileId'].name) \ docs'[fileId'].removed)
               = PageCount(c.body.file)
          /\ cutForce' = EmptyText
          /\ keepForce' = EmptyText
          /\ pagesToRemoveRaw' = EmptyText
          /\ result' = Null ]_vars

\* A reset has succeeded after a Run Cut removed pages of the first upload.
C1_Witness ==
  /\ toast # Null
  /\ toast.msg = "PDF reset to full document."
  /\ fileId = Len(docs)
  /\ \E i \in DOMAIN docs : docs[i].removed # {}


\* The force_keep text a Run Cut handler carries (waiting in `then` while the
\* file is uploaded first).
\* The documents the server holds
Held == { docs[i] : i \in DOMAIN docs }

ForceKeepOf(c) == IF c.path = "/upload" THEN c.then.force_keep ELSE c.body.force_keep

PreprocessCalls(b) == { c \in BagToSet(b) : c.op = "onPreprocess" }

RetainedCount(doc, t) ==
  Cardinality((AllPages(doc.name) \ doc.removed) \ PagesNamed[t])

\* The estimates of a document's held versions in one mode, over the page
\* lists to leave out: << retained pages, input tokens, cost >>
EstimatesOf(name, mode) ==
  { << RetainedCount(doc, t), EstimateResponse(doc, mode, t).input_tokens,
       EstimateResponse(doc, mode, t).estimated_cost >> :
      doc \in { d \in Held : d.name = name }, t \in PageTexts }

\* C3: for every mode and every two held versions of a document with page
\* lists to leave out, the one that retains no more pages is estimated at no
\* more input tokens and no higher cost; in particular a longer
\* pages_to_remove list never raises the estimate.
C3_EstimateMonotone ==
  \A mode \in Modes, name \in { doc.name : doc \in Held } :
    \A e1, e2 \in EstimatesOf(name, mode) :
      e1[1] <= e2[1] => e1[2] <= e2[2] /\ e1[3] <= e2[3]

\* An estimate has been answered for a document with some, not all, of its
\* pages left out.
C3_Witness ==
  \E c \in Pending :
    /\ c.path = "/estimate_tokens_cost" /\ c.pc = "replied" /\ c.resp.ok
    /\ c.resp.data.retained > 0
    /\ c.resp.data.retained < PageCount(docs[c.body.file_id].name)
    /\ c.resp.data.input_tokens < EstimateTokens(PageCount(docs[c.body.file_id].name), c.body.mode)


\* ------------------------------------------------------------ results view
\* r.factor || r.label: an absent or empty factor gives way to the label, and
\* an absent label renders as nothing.
FactorCell(r) ==
  IF "factor" \in DOMAIN r /\ r.factor # "" THEN r.factor ELSE Field(r, "label", "")

ResultsRow(r) ==
  [ factor |-> FactorCell(r),
    value |-> Field(r, "value", ""),
    band |-> Field(r, "band", ""),
    weight |-> Field(r, "weight", ""),
    weighted_score |-> Field(r, "weighted_score", ""),
    notes |-> Field(r, "notes", "") ]

\* ResultsTable({ result }): the rows of the table body, and the two figures
\* under it; with no rows the body is the line "No rows returned."
ResultsTable(res) ==
  LET rows == IF res = Null THEN << >> ELSE Field(res, "table", << >>)
  IN  [ rows |-> [ i \in DOMAIN rows |-> ResultsRow(rows[i]) ],
        rating |-> IF res = Null THEN "-" ELSE Field(res, "final_rating", "-"),
        composite |-> IF res = Null THEN "-" ELSE Field(res, "composite_score", "-") ]

\* ------------------------------------------------------------ requests sent
\* The requests a step puts in flight
NewCalls ==
  { c \in BagToSet(calls') : c.pc = "sent" /\ CopiesIn(c, calls') > CopiesIn(c, calls) }

\* The requests of the Analyze and Estimate actions, uploads they start included
KeyedOps ==
  { "onAnalyze", "onEstimateRaw", "onEstimateFiltered", "analyzeBtn", "estimateBtn",
    "postJSON" }

\* No key is set: on the legacy page the key input is empty, elsewhere neither
\* storage holds a key.
KeyMissing == IF page = "legacy" THEN getApiKey = << >> ELSE getApiAuth.key = << >>

\* C4: while no key is set, no step puts a request of an Analyze or Estimate
\* action in flight.
C4_MissingKeyCaught ==
  [][ KeyMissing => \A c \in NewCalls : c.op \notin KeyedOps ]_vars

ScoringPaths == { "/score", "/analyze" }

\* The request carries the text under the header or under the body field.
Carries(c, header, field, text) ==
  \/ header \in DOMAIN c.headers /\ c.headers[header] = text
  \/ field \in DOMAIN c.body /\ c.body[field] = text

\* C5: every scoring request put in flight carries the key and the model that
\* the storage holds at that moment.
C5_ScoringCarriesAuth ==
  [][ \A c \in NewCalls :
        c.path \in ScoringPaths =>
          /\ Carries(c, "XOpenAIKey", "api_key", getApiAuth.key)
          /\ Carries(c, "XOpenAIModel", "model", getApiAuth.model) ]_vars

\* C6: in App at most one request of an action handler is in flight, busy is
\* true while one is, and no handler starts while busy is true.
C6_OneRequestInFlight ==
  /\ [](page = "react" => NumCalls <= 1 /\ (NumCalls = 1 => busy))
  /\ [][ page = "react" /\ busy => \A c \in NewCalls : events' = events ]_vars

\* The reply c is taken by its handler in this step.
Taken(c) == Replied(c) /\ CopiesIn(c, calls') < CopiesIn(c, calls)

SuccessTexts ==
  { "File uploaded.", "PDF reset to full document.", "Preprocess OK.",
    "Analyze complete.", "Estimated LLM cost (raw)", "Estimated LLM cost (filtered)",
    "PDF uploaded.", "Autocut suggestion filled.", "Done.", "Estimated" }

ProgressTexts == { "", "Uploading", "Finding irrelevant pages", "Analysing", "Estimating" }

\* What the page shows for the handler of c after the step
Shown(c) ==
  IF page = "react" THEN (IF toast' = Null THEN "" ELSE toast'.msg)
  ELSE IF c.op = "estimateBtn" THEN estimateOut'.text
  ELSE analyzeStatus'

\* C7: the handler that takes a failed reply shows an error, not a success or
\* a progress text, and sends nothing more.
C7_FailureSurfaces ==
  [][ \A c \in Pending :
        Taken(c) /\ ~c.resp.ok /\ page # "settings" =>
          /\ Shown(c) \notin SuccessTexts \cup ProgressTexts
          /\ NewCalls = {} ]_vars

RowFields == { "factor", "value", "band", "weight", "weighted_score", "notes" }

\* The view of a score response: a row per table entry, a cell showing its
\* field or nothing, a dash for a missing figure.
Renders(view, data) ==
  LET table == Field(data, "table", << >>)
  IN  /\ DOMAIN view.rows = DOMAIN table
      /\ \A i \in DOMAIN table :
           \A k \in DOMAIN view.rows[i] \cap RowFields :
             view.rows[i][k] = Field(table[i], k, "")
      /\ view.rating = Field(data, "final_rating", "-")
      /\ view.composite = Field(data, "composite_score", "-")

\* C8: a successful analyze renders its response with empty cells and dashes
\* for what is missing, in the results table, in the toast and on the legacy
\* page.
C8_RenderDefaults ==
  [][ \A c \in Pending :
        /\ Succeeds(c, "onAnalyze") /\ c.path = "/score" =>
             /\ Renders(ResultsTable(result'), c.resp.data)
             /\ toast'.detail = Field(c.resp.data, "final_rating", "-")
        /\ Succeeds(c, "analyzeBtn") => Renders(rendered', c.resp.data) ]_vars

\* The requests about an uploaded file: every request of the two pages but
\* the upload itself (main.js postJSON has no caller that gives it a body).
FileRequests == { c \in Pending : c.path # "/upload" /\ c.op # "postJSON" }

\* No file is selected: App holds neither a file nor a file id, the legacy
\* page holds no uploaded id.
NothingSelected ==
  \/ page = "react" /\ file = NoFile /\ fileId = NoId
  \/ page = "legacy" /\ uploadedId = NoId

UploadFirstTexts ==
  { "Please upload a PDF first.", "Upload a PDF first.",
    "Nothing to reset (upload a PDF first)." }

\* What saveKeyBtn alerts
KeyAlerts == { "Please paste your OpenAI API key", "Key ready for this session." }

\* C9: every request about a file carries a file id that a response gave the
\* client and that the server issued; and with nothing selected a step sends
\* at most the upload of a newly picked file, and a toast or alert it raises
\* (the key alerts aside) asks to upload first.
C9_UploadFirst ==
  /\ [](\A c \in FileRequests :
          /\ c.body.file_id \in returned
          /\ c.body.file_id \in DOMAIN docs)
  /\ [][ NothingSelected =>
           /\ \A c \in NewCalls : c.path = "/upload" /\ c.op \in { "onUpload", "fileInput" }
           /\ toast' # toast /\ toast' # Null =>
                toast'.detail \in UploadFirstTexts \/ toast'.msg \in UploadFirstTexts
           /\ alerted' # alerted => alerted' \in UploadFirstTexts \cup KeyAlerts ]_vars

\* A request about a file is in flight and carries an id the client was given
\* after its first.
C9_Witness ==
  \E c \in FileRequests :
    /\ c.pc = "sent"
    /\ c.body.file_id \in returned
    /\ c.body.file_id > 1

\* An Analyze has completed and no upload or reset has started since.
AnalyzeCompleted ==
  \/ page = "react" /\ result # Null
  \/ page = "legacy" /\ analyzeStatus = "Done."

\* C10: once an Analyze has completed, no step sends an estimate, autocut,
\* preprocess or analyze request until an upload or reset starts.
C10_AnalyzeTerminal ==
  [][ AnalyzeCompleted => \A c \in NewCalls : c.path = "/upload" ]_vars

\* C11: result changes only when an analyze succeeds, and then to that
\* response as a whole, or to null when an upload starts or a reset succeeds;
\* every other step leaves it as it is.
C11_ResultFrame ==
  [][ result' # result =>
        \/ \E c \in Pending :
             Succeeds(c, "onAnalyze") /\ c.path = "/score" /\ result' = c.resp.data
        \/ /\ result' = Null
           /\ \/ \E c \in NewCalls : c.op = "onUpload"
              \/ \E c \in Pending : Succeeds(c, "onReset") /\ UploadOk(c) ]_vars

\* A breakdown is shown and an estimate has succeeded after it.
C11_Witness ==
  /\ result # Null
  /\ toast # Null
  /\ toast.msg \in { "Estimated LLM cost (raw)", "Estimated LLM cost (filtered)" }

EstimatePaths == { "/estimate_tokens_cost", "/estimate" }

EstimateOps == { "onEstimateRaw", "onEstimateFiltered", "estimateBtn" }

\* The fields of an estimate request besides the file id, the mode and the key
OtherFields(c) == DOMAIN c.body \ { "file_id", "mode", "api_key" }

\* C12: an estimate request carries file_id and mode and its page list under
\* pages_to_remove; after a successful answer the cost shown is the answer's
\* estimated_cost, and the token counts shown are its input_tokens and
\* output_tokens.
C12_EstimateInterface ==
  /\ [](\A c \in FileRequests :
          c.path \in EstimatePaths =>
            /\ { "file_id", "mode" } \subseteq DOMAIN c.body
            /\ OtherFields(c) \subseteq { "pages_to_remove" })
  /\ [][ \A c \in Pending :
           Succeeds(c, c.op) /\ c.path \in EstimatePaths =>
             IF c.op = "estimateBtn"
             THEN /\ estimateOut'.text = "Estimated"
                  /\ estimateOut'.estimated_cost = c.resp.data.estimated_cost
                  /\ estimateOut'.input_tokens = c.resp.data.input_tokens
                  /\ estimateOut'.output_tokens = c.resp.data.output_tokens
             ELSE toast'.cost = c.resp.data.estimated_cost ]_vars

\* onPreprocess ends in this step: its request c is answered and nothing is
\* sent in its place.
PreprocessDone(c) ==
  Replied(c) /\ c.op = "onPreprocess" /\ calls' = Remove(calls, c)

\* The requests that work on the active document
ActiveDocOps == { "onEstimateFiltered", "onAnalyze" }

\* C13: a successful preprocess makes the answer's file_id the active one
\* when it has one and leaves fileId otherwise; a failed preprocess leaves
\* fileId, cutForce and keepForce; and a filtered estimate or analyze request
\* carries the file id that is active when it is sent.
C13_PreprocessActiveId ==
  /\ [][ \A c \in Pending :
           PreprocessDone(c) =>
             IF c.path = "/preprocess-pdf" /\ c.resp.ok
             THEN fileId' = IF c.resp.data.file_id # NoId THEN c.resp.data.file_id
                            ELSE fileId
             ELSE UNCHANGED << fileId, cutForce, keepForce >> ]_vars
  /\ [][ \A c \in NewCalls :
           c.op \in ActiveDocOps /\ c.path # "/upload" /\ fileId # NoId =>
             c.body.file_id = fileId ]_vars

\* The factor keys of an industry; none when no industry is selected.
FactorKeys(ind) ==
  IF ind = Null THEN {} ELSE { ind.factors[i] : i \in 1 .. Len(ind.factors) }

\* The fields onAnalyze built for its /score request, sent or waiting for the
\* upload.
ScoreFields(c) == IF c.path = "/upload" THEN c.then ELSE c.body

AnalyzeRequests == { c \in Pending : c.op = "onAnalyze" }

IndustryFields == { "industry_key", "manual_factors" }

AuthItems == { "OPENAI_KEY", "OPENAI_MODEL" }

\* The store holds both items; the store holds neither.
HoldsAuth(store) == AuthItems \subseteq DOMAIN store

NoAuth(store) == AuthItems \cap DOMAIN store = {}

\* The key and model items of a store
AuthOf(store) == [ k \in AuthItems \cap DOMAIN store |-> store[k] ]

\* What a Save writes: the trimmed key, and the trimmed model or the default
SavedAuth ==
  [ key |-> Trim(keyInput),
    model |-> IF Trim(modelInput) = << >> THEN DefaultModel ELSE Trim(modelInput) ]

\* C15: each store holds the key and the model together or neither, and the
\* two stores never both hold them; a Save leaves them in localStorage alone
\* with Remember checked and in sessionStorage alone without, and getApiAuth
\* then returns the trimmed key and the model saved; a Clear leaves them in
\* neither store, and getApiAuth then returns an empty key and gpt-4.1-mini;
\* nothing else changes the two items.
C15_KeyStorageExclusive ==
  /\ [](/\ HoldsAuth(localStorage) \/ NoAuth(localStorage)
        /\ HoldsAuth(sessionStorage) \/ NoAuth(sessionStorage)
        /\ ~(HoldsAuth(localStorage) /\ HoldsAuth(sessionStorage)))
  /\ [][ saveOpenAI =>
           /\ IF remember
              THEN HoldsAuth(localStorage') /\ NoAuth(sessionStorage')
              ELSE HoldsAuth(sessionStorage') /\ NoAuth(localStorage')
           /\ getApiAuth' = SavedAuth ]_vars
  /\ [][ clearOpenAI =>
           /\ NoAuth(localStorage') /\ NoAuth(sessionStorage')
           /\ getApiAuth' = [ key |-> << >>, model |-> DefaultModel ] ]_vars
  /\ [][ \/ AuthOf(localStorage') # AuthOf(localStorage)
         \/ AuthOf(sessionStorage') # AuthOf(sessionStorage)
         => saveOpenAI \/ clearOpenAI ]_vars

\* A key typed with blanks around it has been saved with Remember checked.
C15_Witness ==
  /\ page = "settings"
  /\ keyInput = << " ", "k", " " >>
  /\ remember
  /\ HoldsAuth(localStorage)
  /\ NoAuth(sessionStorage)
  /\ getApiAuth = [ key |-> << "k" >>, model |-> DefaultModel ]

\* The server holds the id for a document made from the selected file.
OfSelectedFile(fid) == fid \in DOMAIN docs /\ docs[fid].name = file.name

\* C16: with no request in flight and a file id, the id names a document of
\* the selected file; and an analyze request scores the selected file.
C16_ActiveMatchesSelected ==
  /\ [](page = "react" /\ calls = EmptyBag /\ fileId # NoId => OfSelectedFile(fileId))
  /\ [](\A c \in FileRequests : c.path = "/score" => OfSelectedFile(c.body.file_id))

\* C17: with every request answered and every answer handled, busy always
\* becomes false again, and busy is never true with no request in flight.
C17_BusyReleased ==
  /\ busy ~> ~busy
  /\ [](calls = EmptyBag => ~busy)

\* An upload answered without a file_id has been caught and busy released.
C17_Witness ==
  /\ ~busy
  /\ calls = EmptyBag
  /\ toast # Null
  /\ toast.detail = "Upload failed: no file_id"

=============================================================================
